---- MODULE Spec2Model ----
(***************************************************************************)
(* Model of Base_Code/Fitness_App.py: the two sqlite tables written by the *)
(* sidebar forms, the data-analysis pass every Streamlit run makes, and    *)
(* the two statistical functions plot_imr_combined and                     *)
(* calculate_capability.                                                   *)
(*                                                                         *)
(* Numbers.  A float is modelled by the exact rational it stands for, a    *)
(* pair <<p, q>> in lowest terms with q > 0; NaN is the pair <<0, 0>>.     *)
(* Rounding error of the binary representation is not modelled.  A value   *)
(* divided by the standard deviation is kept as a pair (rational, variance)*)
(* so that round(x, 2) can be computed exactly with integers.              *)
(* Dates are day numbers: str(date) is ISO 'YYYY-MM-DD' text, whose text   *)
(* order is the order of the days.                                         *)
(***************************************************************************)
EXTENDS Integers, Sequences, FiniteSets, TLC

VARIABLES
    daily_stats,   \* table daily_stats: its rows in rowid order
    nutrition,     \* table nutrition: its rows in rowid order
    menu,          \* the sidebar radio's selection
    last_save,     \* the form submission of the latest run (None: none)
    view,          \* what the latest run's data analysis computed
    cap_pc,        \* calculate_capability call: "ready" | "returned"
    cap_df,        \* its df[column], the values in row order
    cap_lsl,       \* its lsl
    cap_usl,       \* its usl
    cap_ret,       \* its return value
    imr_pc,        \* plot_imr_combined call: "ready" | "returned"
    imr_arg,       \* the caller's frame passed as df
    imr_local,     \* the frame the function's local name df ends bound to
    imr_ret        \* the limits the function drew

vars == <<daily_stats, nutrition, menu, last_save, view,
          cap_pc, cap_df, cap_lsl, cap_usl, cap_ret,
          imr_pc, imr_arg, imr_local, imr_ret>>

appVars == <<daily_stats, nutrition, menu, last_save, view>>
capVars == <<cap_pc, cap_df, cap_lsl, cap_usl, cap_ret>>
imrVars == <<imr_pc, imr_arg, imr_local, imr_ret>>

(***************************************************************************)
(* Bounds of the model.                                                    *)
(***************************************************************************)
NumDates == 2      \* dates the forms can be submitted for
MaxRows == 3       \* rows of a frame handed to plot_imr_combined
MaxLen == 5        \* values of a series handed to calculate_capability

(***************************************************************************)
(* Python values.                                                          *)
(***************************************************************************)
None == <<>>

Abs(x) == IF x < 0 THEN -x ELSE x

RECURSIVE GCD(_, _)
GCD(a, b) == IF b = 0 THEN a ELSE GCD(b, a % b)

NaN == <<0, 0>>
IsNaN(x) == x[2] = 0

\* The float p/q (q # 0), in lowest terms.
Rat(p, q) ==
    LET g == GCD(Abs(p), Abs(q))
        s == IF q < 0 THEN -1 ELSE 1
    IN  <<(s * p) \div g, (s * q) \div g>>

Float(i) == <<i, 1>>

FAdd(a, b) ==
    IF IsNaN(a) \/ IsNaN(b) THEN NaN
    ELSE Rat(a[1] * b[2] + b[1] * a[2], a[2] * b[2])

FSub(a, b) ==
    IF IsNaN(a) \/ IsNaN(b) THEN NaN
    ELSE Rat(a[1] * b[2] - b[1] * a[2], a[2] * b[2])

FMul(a, b) ==
    IF IsNaN(a) \/ IsNaN(b) THEN NaN
    ELSE Rat(a[1] * b[1], a[2] * b[2])

\* abs() of a float; NaN stays NaN.
FAbs(a) == IF IsNaN(a) THEN NaN ELSE <<Abs(a[1]), a[2]>>

\* a > b; every comparison with NaN is False.
FGt(a, b) == ~IsNaN(a) /\ ~IsNaN(b) /\ a[1] * b[2] > b[1] * a[2]

\* a < b; every comparison with NaN is False.
FLt(a, b) == FGt(b, a)

\* Python's max(0, x): x when x > 0, else the first argument 0.
PyMax0(x) == IF FGt(x, Float(0)) THEN x ELSE Float(0)

\* Python's min(a, b): b when b < a, else the first argument a.
PyMin(a, b) == IF FLt(b, a) THEN b ELSE a

(***************************************************************************)
(* pandas Series: a sequence of floats.                                    *)
(***************************************************************************)
RECURSIVE SeriesSum(_)
SeriesSum(s) ==
    IF s = <<>> THEN Float(0)
    ELSE FAdd(Head(s), SeriesSum(Tail(s)))

\* The entries that are not NaN (skipna=True).
DropNaN(s) == SelectSeq(s, LAMBDA x : ~IsNaN(x))

\* Counts a missing entry as 0 instead of skipping it.
SeriesMeanFillZero(s) ==
    IF s = <<>> THEN NaN
    ELSE FMul(SeriesSum(DropNaN(s)), Rat(1, Len(s)))

\* Series.mean(): the mean of the entries that are not NaN; NaN when there is
\* none.
SeriesMean(s) ==
    LET kept == DropNaN(s)
    IN  IF kept = <<>> THEN NaN
        ELSE FMul(SeriesSum(kept), Rat(1, Len(kept)))

\* Series.diff().abs(): NaN at position 1, then |s[i] - s[i-1]|.
DiffAbs(s) ==
    [i \in 1..Len(s) |-> IF i = 1 THEN NaN ELSE FAbs(FSub(s[i], s[i - 1]))]

(***************************************************************************)
(* pandas DataFrame: its column names and its rows in order.               *)
(***************************************************************************)
Frame(columns, rows) == [columns |-> columns, rows |-> rows]

\* df[column] as a float Series.
Column(df, column) ==
    [i \in 1..Len(df.rows) |-> Float(df.rows[i][column])]

RECURSIVE InsertByDate(_, _)
InsertByDate(sorted, r) ==
    IF sorted = <<>> THEN <<r>>
    ELSE IF r.date < Head(sorted).date THEN <<r>> \o sorted
    ELSE <<Head(sorted)>> \o InsertByDate(Tail(sorted), r)

RECURSIVE SortRows(_)
SortRows(rows) ==
    IF rows = <<>> THEN <<>>
    ELSE InsertByDate(SortRows(SubSeq(rows, 1, Len(rows) - 1)), rows[Len(rows)])

\* Leaves the rows in the order they came in.
sort_values_unsorted(df) == df

\* df.sort_values('date'): a new frame, the rows ascending by date.
sort_values(df) == Frame(df.columns, SortRows(df.rows))

\* df['MR'] = s: the frame with column MR set to the Series s.
SetMR(df, s) ==
    Frame(IF \E i \in 1..Len(df.columns) : df.columns[i] = "MR"
              THEN df.columns ELSE Append(df.columns, "MR"),
          [i \in 1..Len(df.rows) |->
              [c \in (DOMAIN df.rows[i]) \cup {"MR"} |->
                  IF c = "MR" THEN s[i] ELSE df.rows[i][c]]])

(***************************************************************************)
(* plot_imr_combined(df, column, title).  The title only labels the chart. *)
(***************************************************************************)
K_I == Rat(266, 100)      \* 2.66
K_MR == Rat(3267, 1000)   \* 3.267

\* Sorts and adds MR on the caller's own frame.
plot_imr_combined_inplace(df, column) ==
    LET sorted == sort_values(df)
        MR     == DiffAbs(Column(sorted, column))
        local  == SetMR(sorted, MR)
        x_bar  == SeriesMean(Column(sorted, column))
        mr_bar == SeriesMean(MR)
    IN  [caller |-> local,
         local  |-> local,
         x_bar  |-> x_bar,
         mr_bar |-> mr_bar,
         ucl_i  |-> FAdd(x_bar, FMul(K_I, mr_bar)),
         lcl_i  |-> PyMax0(FSub(x_bar, FMul(K_I, mr_bar))),
         ucl_mr |-> FMul(mr_bar, K_MR)]

\* caller: the caller's frame when the function returns; local: the frame
\* the name df is bound to inside; the rest: the lines drawn on the chart.
plot_imr_combined(df, column) ==
    LET sorted == sort_values(df)
        MR     == DiffAbs(Column(sorted, column))
        local  == SetMR(sorted, MR)
        x_bar  == SeriesMean(Column(sorted, column))
        mr_bar == SeriesMean(MR)
    IN  [caller |-> df,
         local  |-> local,
         x_bar  |-> x_bar,
         mr_bar |-> mr_bar,
         ucl_i  |-> FAdd(x_bar, FMul(K_I, mr_bar)),
         lcl_i  |-> PyMax0(FSub(x_bar, FMul(K_I, mr_bar))),
         ucl_mr |-> FMul(mr_bar, K_MR)]

\* The limits of a result, without the frames.
Limits(r) ==
    [x_bar |-> r.x_bar, mr_bar |-> r.mr_bar, ucl_i |-> r.ucl_i,
     lcl_i |-> r.lcl_i, ucl_mr |-> r.ucl_mr]

(***************************************************************************)
(* calculate_capability(df, column, lsl, usl).  df is given by the values  *)
(* of df[column] in row order; lsl and usl are integers.                   *)
(***************************************************************************)
\* One point fewer than the code asks for.
MinPointsOffByOne == 5 - 1

MinPoints == 5

\* The variance with the divisor n instead of n - 1.
SeriesVarPopulation(s) ==
    IF Len(s) < 2 THEN NaN
    ELSE LET m  == SeriesMean(s)
             sq == [i \in 1..Len(s) |-> FMul(FSub(s[i], m), FSub(s[i], m))]
         IN  FMul(SeriesSum(sq), Rat(1, Len(s)))

\* The square of Series.std(): the sample variance (ddof = 1), NaN for
\* fewer than two values.
SeriesVar(s) ==
    IF Len(s) < 2 THEN NaN
    ELSE LET m  == SeriesMean(s)
             sq == [i \in 1..Len(s) |-> FMul(FSub(s[i], m), FSub(s[i], m))]
         IN  FMul(SeriesSum(sq), Rat(1, Len(s) - 1))

\* x / (k * sigma) for sigma > 0, kept as the float x / k and sigma squared.
OverSigma(x, k, var) == [num |-> FMul(x, Rat(1, k)), var |-> var]

\* min(a, b) of two quotients by the same positive sigma.
MinOverSigma(a, b) == [num |-> PyMin(a.num, b.num), var |-> a.var]

RECURSIVE NewtonSqrt(_, _)
NewtonSqrt(n, x) ==
    LET y == (x + n \div x) \div 2
    IN  IF y >= x THEN x ELSE NewtonSqrt(n, y)

\* The integer part of the square root of n >= 0.
ISqrt(n) == IF n = 0 THEN 0 ELSE NewtonSqrt(n, n)

\* round(x, 2) of x = num / sqrt(var), in hundredths: the nearest integer to
\* 100 * x, an exact half going to the even one.
Round2(x) ==
    LET p  == Abs(x.num[1])
        q  == x.num[2]
        N  == 10000 * p * p * x.var[2]
        D  == q * q * x.var[1]
        k  == ISqrt(N \div D)               \* floor(100 * |x|)
        R  == (N - k * k * D) - k * D       \* sign of 100*|x| - (k + 1/2)
        h  == IF D % 4 = 0 /\ R = D \div 4
                  THEN (IF k % 2 = 0 THEN k ELSE k + 1)
              ELSE IF R > D \div 4 THEN k + 1
              ELSE k
    IN  IF x.num[1] < 0 THEN -h ELSE h

\* A returned number, in hundredths.
Number(h) == <<h>>

\* Reports a constant series as insufficient data.
calculate_capability_zero_absent(df, lsl, usl) ==
    IF Len(df) < MinPoints THEN <<None, None>>
    ELSE
        LET s     == [i \in 1..Len(df) |-> Float(df[i])]
            mean  == SeriesMean(s)
            var   == SeriesVar(s)
            cp    == OverSigma(Float(usl - lsl), 6, var)
            cpu   == OverSigma(FSub(Float(usl), mean), 3, var)
            cpl   == OverSigma(FSub(mean, Float(lsl)), 3, var)
            cpk   == MinOverSigma(cpu, cpl)
        IN  IF var = Float(0) THEN <<None, None>>
            ELSE <<Number(Round2(cp)), Number(Round2(cpk))>>

calculate_capability(df, lsl, usl) ==
    IF Len(df) < MinPoints THEN <<None, None>>
    ELSE
        LET s     == [i \in 1..Len(df) |-> Float(df[i])]
            mean  == SeriesMean(s)
            var   == SeriesVar(s)                   \* sigma squared
            cp    == OverSigma(Float(usl - lsl), 6, var)
            cpu   == OverSigma(FSub(Float(usl), mean), 3, var)
            cpl   == OverSigma(FSub(mean, Float(lsl)), 3, var)
            cpk   == MinOverSigma(cpu, cpl)
        IN  IF var = Float(0) THEN <<Number(0), Number(0)>>
            ELSE <<Number(Round2(cp)), Number(Round2(cpk))>>

(***************************************************************************)
(* The sqlite tables and the sidebar forms.                                *)
(***************************************************************************)
StatsColumns == <<"date", "weight", "active_calories", "exercise_mins", "workout_type">>
NutrColumns == <<"date", "calories_in", "protein", "carbs", "fat">>

Dates == 1..NumDates

\* What the stats form can be submitted with, besides the date.
StatsForms ==
    { [weight |-> 70, active_calories |-> 300, exercise_mins |-> 30,
       workout_type |-> "Cardio"],
      [weight |-> 72, active_calories |-> 0, exercise_mins |-> 0,
       workout_type |-> "Rest"] }

\* What the nutrition form can be submitted with, besides the date.
NutrForms ==
    { [calories_in |-> 1800, protein |-> 120, carbs |-> 200, fat |-> 60],
      [calories_in |-> 2500, protein |-> 90, carbs |-> 330, fat |-> 90] }

\* The row a form submission binds to the statement's parameters.
FormRow(d, f) ==
    [c \in {"date"} \cup DOMAIN f |-> IF c = "date" THEN d ELSE f[c]]

HasDate(table, d) == \E i \in 1..Len(table) : table[i].date = d

\* A plain INSERT that keeps the row already stored.
InsertKeep(table, row) == Append(table, row)

\* INSERT OR REPLACE on a table whose PRIMARY KEY is date: the stored row of
\* that date is deleted and the new row gets the next rowid.
InsertOrReplace(table, row) ==
    Append(SelectSeq(table, LAMBDA r : r.date # row.date), row)

\* pd.read_sql_query("SELECT * FROM t", conn): the rows in rowid order.
read_sql_query(columns, table) == Frame(columns, table)

(***************************************************************************)
(* pd.merge(left, right, on='date', how='inner').                          *)
(***************************************************************************)
MergeRow(l, r) ==
    [c \in (DOMAIN l) \cup (DOMAIN r) |-> IF c \in DOMAIN l THEN l[c] ELSE r[c]]

RECURSIVE MergeRows(_, _)
MergeRows(lrows, rrows) ==
    IF lrows = <<>> THEN <<>>
    ELSE LET l == Head(lrows)
             m == SelectSeq(rrows, LAMBDA r : r.date = l.date)
         IN  [j \in 1..Len(m) |-> MergeRow(l, m[j])]
             \o MergeRows(Tail(lrows), rrows)

MergedColumns(left, right) ==
    left.columns \o SelectSeq(right.columns, LAMBDA c : c # "date")

\* Pairs the rows by position instead of by date.
merge_by_position(left, right) ==
    Frame(MergedColumns(left, right),
          [i \in 1..(IF Len(left.rows) < Len(right.rows)
                        THEN Len(left.rows) ELSE Len(right.rows)) |->
              MergeRow(left.rows[i], right.rows[i])])

\* how='inner': a row per pair of a left and a right row of the same date, in
\* the order of the left rows.
merge(left, right) ==
    Frame(MergedColumns(left, right), MergeRows(left.rows, right.rows))

(***************************************************************************)
(* Section 4 of the script, run on every Streamlit run.                    *)
(***************************************************************************)
BMR == 2000

NoView ==
    [shown |-> FALSE, df_sorted |-> None, df_combined |-> None,
     weight_chart |-> None, tab3 |-> "not_run", tab4 |-> "not_run",
     net_calories |-> None]

DataAnalysis(stats_table, nutr_table) ==
    LET df_stats == read_sql_query(StatsColumns, stats_table)
        df_nutr  == read_sql_query(NutrColumns, nutr_table)
    IN  IF df_stats.rows # <<>> /\ Len(df_stats.rows) >= 2
        THEN
            LET df_sorted   == sort_values(df_stats)
                df_combined == merge(df_sorted, df_nutr)
                fig         == plot_imr_combined(df_sorted, "weight")
                \* px is never imported: px.bar raises NameError and the run
                \* stops there.
                tab3 == IF df_nutr.rows # <<>> THEN "NameError" ELSE "info"
                tab4 == IF tab3 = "NameError" THEN "not_run"
                        ELSE IF df_combined.rows # <<>> THEN "line_chart"
                        ELSE "info"
            IN  [shown        |-> TRUE,
                 df_sorted    |-> fig.caller,
                 df_combined  |-> df_combined,
                 weight_chart |-> Limits(fig),
                 tab3         |-> tab3,
                 tab4         |-> tab4,
                 net_calories |->
                     IF tab4 = "line_chart"
                     THEN [i \in 1..Len(df_combined.rows) |->
                              df_combined.rows[i].calories_in
                                  - df_combined.rows[i].active_calories - BMR]
                     ELSE None]
        ELSE NoView

NoSave == [form |-> "none", row |-> None, replaced |-> FALSE]

\* A run in which the stats form is submitted.
SaveStats(d, f) ==
    /\ menu = "Physical Stats"
    /\ daily_stats' = InsertOrReplace(daily_stats, FormRow(d, f))
    /\ last_save' = [form |-> "stats_form", row |-> FormRow(d, f),
                     replaced |-> HasDate(daily_stats, d)]
    /\ view' = DataAnalysis(daily_stats', nutrition)
    /\ UNCHANGED <<nutrition, menu>>

\* A run in which the nutrition form is submitted.
SaveNutrition(d, f) ==
    /\ menu = "Nutrition"
    /\ nutrition' = InsertOrReplace(nutrition, FormRow(d, f))
    /\ last_save' = [form |-> "nutrition_form", row |-> FormRow(d, f),
                     replaced |-> HasDate(nutrition, d)]
    /\ view' = DataAnalysis(daily_stats, nutrition')
    /\ UNCHANGED <<daily_stats, menu>>

\* A run started by the radio: nothing is submitted.
SelectMenu(m) ==
    /\ m # menu
    /\ menu' = m
    /\ last_save' = NoSave
    /\ view' = DataAnalysis(daily_stats, nutrition)
    /\ UNCHANGED <<daily_stats, nutrition>>

InitApp ==
    /\ daily_stats = <<>>
    /\ nutrition = <<>>
    /\ menu = "Physical Stats"
    /\ last_save = NoSave
    /\ view = DataAnalysis(<<>>, <<>>)

(***************************************************************************)
(* Calls of the two functions on inputs of their own.                      *)
(***************************************************************************)
WorkedExample == <<100, 102, 101, 105, 103>>

CapValues == {100, 102, 105}
CapLimits == {95, 102, 110}

SeqsUpTo(S, n) == UNION {[1..k -> S] : k \in 0..n}

CapSeries == SeqsUpTo(CapValues, MaxLen) \cup {WorkedExample}

NoLimits ==
    [x_bar |-> None, mr_bar |-> None, ucl_i |-> None, lcl_i |-> None,
     ucl_mr |-> None]

InitCapIdle ==
    /\ cap_pc = "idle"
    /\ cap_df = <<>>
    /\ cap_lsl = 0
    /\ cap_usl = 0
    /\ cap_ret = <<None, None>>

InitCap ==
    /\ cap_pc = "ready"
    /\ cap_df \in CapSeries
    /\ cap_lsl \in CapLimits
    /\ cap_usl \in CapLimits
    /\ cap_ret = <<None, None>>

CallCapability ==
    /\ cap_pc = "ready"
    /\ cap_ret' = calculate_capability(cap_df, cap_lsl, cap_usl)
    /\ cap_pc' = "returned"
    /\ UNCHANGED <<cap_df, cap_lsl, cap_usl>>

ImrColumns == <<"date", "weight">>
ImrDates == 1..(MaxRows + 1)
ImrValues == {0, 1, 5}
ImrRows == [date : ImrDates, weight : ImrValues]

DistinctDates(rows) ==
    \A i, j \in 1..Len(rows) : i # j => rows[i].date # rows[j].date

ExampleRows(order) ==
    [i \in 1..Len(order) |-> [date |-> order[i], weight |-> WorkedExample[order[i]]]]

\* The worked example in date order and shuffled, and a single observation.
ExampleFrames ==
    { Frame(ImrColumns, ExampleRows(<<1, 2, 3, 4, 5>>)),
      Frame(ImrColumns, ExampleRows(<<4, 1, 5, 3, 2>>)),
      Frame(ImrColumns, <<[date |-> 1, weight |-> 150]>>) }

ImrFrames ==
    { Frame(ImrColumns, rows) :
        rows \in {r \in SeqsUpTo(ImrRows, MaxRows) : DistinctDates(r)} }
    \cup ExampleFrames

InitImrIdle ==
    /\ imr_pc = "idle"
    /\ imr_arg = Frame(ImrColumns, <<>>)
    /\ imr_local = None
    /\ imr_ret = NoLimits

InitImr ==
    /\ imr_pc = "ready"
    /\ imr_arg \in ImrFrames
    /\ imr_local = None
    /\ imr_ret = NoLimits

CallPlotImr ==
    /\ imr_pc = "ready"
    /\ LET r == plot_imr_combined(imr_arg, "weight")
       IN  /\ imr_arg' = r.caller
           /\ imr_local' = r.local
           /\ imr_ret' = Limits(r)
    /\ imr_pc' = "returned"

(***************************************************************************)
(* Specifications.                                                         *)
(***************************************************************************)
Init == InitApp /\ InitCapIdle /\ InitImrIdle

Next ==
    \/ \E d \in Dates, f \in StatsForms :
           SaveStats(d, f) /\ UNCHANGED <<capVars, imrVars>>
    \/ \E d \in Dates, f \in NutrForms :
           SaveNutrition(d, f) /\ UNCHANGED <<capVars, imrVars>>
    \/ \E m \in {"Physical Stats", "Nutrition"} :
           SelectMenu(m) /\ UNCHANGED <<capVars, imrVars>>

Spec == Init /\ [][Next]_vars

InitCapCalls == InitApp /\ InitCap /\ InitImrIdle

NextCap == CallCapability /\ UNCHANGED <<appVars, imrVars>>

SpecCap == InitCapCalls /\ [][NextCap]_vars

InitImrCalls == InitApp /\ InitCapIdle /\ InitImr

NextImr == CallPlotImr /\ UNCHANGED <<appVars, capVars>>

SpecImr == InitImrCalls /\ [][NextImr]_vars

(***************************************************************************)
(* Integer arithmetic the properties are stated in.                        *)
(***************************************************************************)
RECURSIVE IntSum(_)
IntSum(s) == IF s = <<>> THEN 0 ELSE Head(s) + IntSum(Tail(s))

Squares(s) == [i \in 1..Len(s) |-> s[i] * s[i]]

WeightsOf(rows) == [i \in 1..Len(rows) |-> rows[i].weight]

\* |v[i+1] - v[i]| for i = 1..n-1: one entry fewer than v.
AbsDiffs(v) == [i \in 1..(Len(v) - 1) |-> Abs(v[i + 1] - v[i])]

IsDateOrdered(rows) ==
    \A i \in 1..(Len(rows) - 1) : rows[i].date < rows[i + 1].date

\* The float x is the fraction a / b (b > 0).
IsFraction(x, a, b) == x[2] > 0 /\ x[1] * b = a * x[2]

\* n * sum(x^2) - (sum x)^2: n * (n - 1) times the sample variance.
VarTimesNN1(v) == Len(v) * IntSum(Squares(v)) - IntSum(v) * IntSum(v)

AllEqual(v) == \A i, j \in 1..Len(v) : v[i] = v[j]

\* r is an integer nearest to y, where y has the sign of m and
\* (2 * y)^2 = A / B: |r - y| <= 1/2.
IsNearest(r, m, A, B) ==
    LET a == Abs(r)
    IN  /\ m >= 0 => r >= 0
        /\ m <= 0 => r <= 0
        /\ a >= 1 => (2 * a - 1) * (2 * a - 1) * B <= A
        /\ A <= (2 * a + 1) * (2 * a + 1) * B

Min(a, b) == IF a < b THEN a ELSE b

PermutedFrames(df) ==
    { Frame(df.columns, [i \in 1..Len(df.rows) |-> df.rows[p[i]]]) :
        p \in Permutations(1..Len(df.rows)) }

RowsOfDate(table, d) == {i \in 1..Len(table) : table[i].date = d}

(***************************************************************************)
(* calculate_capability                                                    *)
(***************************************************************************)
\* C1: a series of fewer than 5 values, whatever the values and whatever lsl
\* and usl, makes calculate_capability return (None, None).
C1_FewerThanFiveIsAbsent ==
    cap_pc = "returned" /\ Len(cap_df) < 5 => cap_ret = <<None, None>>

\* A constant series of 4 values with lsl >= usl has been answered.
C1_Witness ==
    /\ cap_pc = "returned"
    /\ Len(cap_df) = 4
    /\ AllEqual(cap_df)
    /\ cap_lsl >= cap_usl
    /\ cap_ret = <<None, None>>

\* C3: a call with lsl >= usl is rejected: it returns no Cp and no Cpk
\* number, whatever the series.
C3_InvalidLimitsRejected ==
    cap_pc = "returned" /\ cap_lsl >= cap_usl =>
        cap_ret[1] = None /\ cap_ret[2] = None

\* C4: a series of at least 5 equal values makes calculate_capability return
\* Cp = 0 and Cpk = 0, whatever lsl and usl.
C4_ZeroVarianceIsZero ==
    cap_pc = "returned" /\ Len(cap_df) >= 5 /\ AllEqual(cap_df) =>
        cap_ret = << <<0>>, <<0>> >>

\* A constant series of 5 values has been answered with (0, 0).
C4_Witness ==
    /\ cap_pc = "returned"
    /\ Len(cap_df) = 5
    /\ AllEqual(cap_df)
    /\ cap_lsl < cap_usl
    /\ cap_ret = << <<0>>, <<0>> >>

\* With n >= 5, sigma > 0 and lsl < usl the two returned numbers are, in
\* hundredths, nearest to 100 * (usl - lsl) / (6 * sigma) and to
\* 100 * min(usl - mean, mean - lsl) / (3 * sigma), sigma the sample standard
\* deviation: sigma^2 = V / (n * (n - 1)), V = n * sum(x^2) - (sum x)^2.
CapabilityFormula ==
    cap_pc = "returned" /\ Len(cap_df) >= 5 /\ ~AllEqual(cap_df)
        /\ cap_lsl < cap_usl =>
    LET n == Len(cap_df)
        S == IntSum(cap_df)
        V == VarTimesNN1(cap_df)
        D == cap_usl - cap_lsl
        m == Min(n * cap_usl - S, S - n * cap_lsl)
    IN  /\ Len(cap_ret[1]) = 1 /\ Len(cap_ret[2]) = 1
        /\ IsNearest(cap_ret[1][1], D, 10000 * D * D * n * (n - 1), 9 * V)
        /\ IsNearest(cap_ret[2][1], m, 40000 * m * m * (n - 1), 9 * n * V)

IsWorkedCapability ==
    cap_pc = "returned" /\ cap_df = WorkedExample /\ cap_lsl = 95 /\ cap_usl = 110

\* C6, as amended: for n >= 5, sigma > 0 and lsl < usl, calculate_capability
\* returns Cp = (usl - lsl) / (6 * sigma) and
\* Cpk = min((usl - mean) / (3 * sigma), (mean - lsl) / (3 * sigma)), each
\* rounded to 2 decimal places; [100,102,101,105,103] with lsl = 95 and
\* usl = 110 gives Cp = 1.30 and Cpk = 1.25.
C6_CapabilityRounded ==
    /\ CapabilityFormula
    /\ IsWorkedCapability => cap_ret = << <<130>>, <<125>> >>

\* The worked example has been answered with Cp = 1.30 and Cpk = 1.25.
C6_Witness ==
    /\ IsWorkedCapability
    /\ cap_ret = << <<130>>, <<125>> >>

\* C6 as the claim states it: the same formulas, and the worked example
\* gives Cp = 1.40 and Cpk = 1.34.
C6_AsClaimed ==
    /\ CapabilityFormula
    /\ IsWorkedCapability => cap_ret = << <<140>>, <<134>> >>

(***************************************************************************)
(* plot_imr_combined                                                       *)
(***************************************************************************)
\* C2: a series of fewer than 2 observations gets no control limit at all:
\* none of center, UCL_I, LCL_I, mean moving range, UCL_MR is a number, a
\* zero or a NaN.
C2_FewerThanTwoIsAbsent ==
    imr_pc = "returned" /\ Len(imr_arg.rows) < 2 => imr_ret = NoLimits

\* C5: for a date-ordered series of n >= 2 values, center is their mean,
\* mrMean the mean of the n - 1 absolute consecutive differences,
\* UCL_I = center + 2.66 * mrMean, LCL_I = max(0, center - 2.66 * mrMean),
\* UCL_MR = 3.267 * mrMean; the first row has no moving range;
\* [100,102,101,105,103] gives 102.2, [2,1,4,2], 2.25, 108.185, 96.215.
C5_ImrLimits ==
    /\ imr_pc = "returned" /\ IsDateOrdered(imr_arg.rows)
           /\ Len(imr_arg.rows) >= 2 =>
       LET v == WeightsOf(imr_arg.rows)
           n == Len(v)
           S == IntSum(v)
           M == IntSum(AbsDiffs(v))
           L == 100 * (n - 1) * S - 266 * n * M
       IN  /\ IsFraction(imr_ret.x_bar, S, n)
           /\ IsFraction(imr_ret.mr_bar, M, n - 1)
           /\ IsFraction(imr_ret.ucl_i,
                         100 * (n - 1) * S + 266 * n * M, 100 * n * (n - 1))
           /\ IF L > 0
                  THEN IsFraction(imr_ret.lcl_i, L, 100 * n * (n - 1))
                  ELSE imr_ret.lcl_i = <<0, 1>>
           /\ IsFraction(imr_ret.ucl_mr, 3267 * M, 1000 * (n - 1))
           /\ IsNaN(imr_local.rows[1].MR)
           /\ \A i \in 2..n :
                  imr_local.rows[i].MR = <<Abs(v[i] - v[i - 1]), 1>>
    /\ imr_pc = "returned" /\ WeightsOf(imr_arg.rows) = WorkedExample
           /\ IsDateOrdered(imr_arg.rows) =>
       /\ imr_ret = [x_bar |-> <<511, 5>>, mr_bar |-> <<9, 4>>,
                     ucl_i |-> <<21637, 200>>, lcl_i |-> <<19243, 200>>,
                     ucl_mr |-> <<29403, 4000>>]
       /\ [i \in 1..5 |-> imr_local.rows[i].MR]
              = <<NaN, <<2, 1>>, <<1, 1>>, <<4, 1>>, <<2, 1>>>>

\* A date-ordered series whose lower limit is clamped to 0 has been charted.
C5_Witness ==
    /\ imr_pc = "returned"
    /\ IsDateOrdered(imr_arg.rows)
    /\ Len(imr_arg.rows) = 3
    /\ imr_ret.lcl_i = <<0, 1>>
    /\ imr_ret.x_bar # <<0, 1>>
    /\ imr_ret.mr_bar # <<0, 1>>

\* C7: the rows of a frame with pairwise distinct dates, fed in any order,
\* give the same limits: the moving ranges are taken over the rows in date
\* order.
C7_OrderInvariant ==
    imr_pc = "returned" /\ DistinctDates(imr_arg.rows) =>
        /\ IsDateOrdered(imr_local.rows)
        /\ \A f \in PermutedFrames(imr_arg) :
               Limits(plot_imr_combined(f, "weight")) = imr_ret

\* A frame of 3 or more rows out of date order has been charted, and its
\* mean moving range is not the one its input order would give.
C7_Witness ==
    /\ imr_pc = "returned"
    /\ Len(imr_arg.rows) >= 3
    /\ ~IsDateOrdered(imr_arg.rows)
    /\ ~IsFraction(imr_ret.mr_bar,
                   IntSum(AbsDiffs(WeightsOf(imr_arg.rows))),
                   Len(imr_arg.rows) - 1)

\* C8: the call leaves the caller's frame as it was: same rows, same order,
\* same columns.
C8_CallerFrameUnchanged == [][imr_arg' = imr_arg]_vars

\* A frame out of date order has been charted: the function's own frame is
\* sorted and has the column MR, the caller's is neither.
C8_Witness ==
    /\ imr_pc = "returned"
    /\ Len(imr_arg.rows) >= 2
    /\ ~IsDateOrdered(imr_arg.rows)
    /\ imr_arg.columns = ImrColumns
    /\ IsDateOrdered(imr_local.rows)
    /\ imr_local.columns = Append(ImrColumns, "MR")

HoldsSaved(table, row) ==
    \E i \in 1..Len(table) :
        table[i] = row /\ RowsOfDate(table, row.date) = {i}

\* The rows of the dates other than d, as a set.
OtherRows(table, d) == {table[i] : i \in {j \in 1..Len(table) : table[j].date # d}}

\* C10: each table holds at most one row per date; a save of a date already
\* stored replaces that row by the submitted one, keeps the rows of the
\* other dates, and leaves the other table as it was.
C10_OneRowPerDate ==
    /\ [](/\ DistinctDates(daily_stats)
          /\ DistinctDates(nutrition)
          /\ last_save.form = "stats_form" => HoldsSaved(daily_stats, last_save.row)
          /\ last_save.form = "nutrition_form" => HoldsSaved(nutrition, last_save.row))
    /\ [][/\ last_save'.form = "stats_form" =>
                /\ nutrition' = nutrition
                /\ OtherRows(daily_stats', last_save'.row.date)
                       = OtherRows(daily_stats, last_save'.row.date)
          /\ last_save'.form = "nutrition_form" =>
                /\ daily_stats' = daily_stats
                /\ OtherRows(nutrition', last_save'.row.date)
                       = OtherRows(nutrition, last_save'.row.date)
          /\ last_save'.form = "none" =>
                daily_stats' = daily_stats /\ nutrition' = nutrition]_vars

\* A stats row has replaced the stored row of its date while another date
\* and a nutrition row are stored.
C10_Witness ==
    /\ last_save.form = "stats_form"
    /\ last_save.replaced
    /\ Len(daily_stats) = 2
    /\ daily_stats[1].date # last_save.row.date
    /\ nutrition # <<>>

====
